---------------------------- MODULE Spec2Model ----------------------------
(***************************************************************************)
(* Model of the Limit Practice application (src/app.py): the share-token   *)
(* codec, the problem generator, the answer verifier and the session       *)
(* progress tracker driven by the Submit, New Problem and Challenge        *)
(* buttons.                                                                *)
(*                                                                         *)
(* Python strings are sequences of code points, bytes are sequences of     *)
(* naturals below 256.  String literals are written as tuples of           *)
(* one-character strings and converted with Text.                          *)
(***************************************************************************)
EXTENDS Integers, Sequences, FiniteSets, TLC

(***************************************************************************)
(* Characters                                                              *)
(***************************************************************************)
\* Printable ASCII, code points 32..126, in order (the double quote, the
\* backslash and the backtick are spelled out).
AsciiChars ==
  << " ", "!", "dquote", "#", "$", "%", "&", "'", "(", ")", "*", "+", ",", "-", ".", "/",
     "0", "1", "2", "3", "4", "5", "6", "7", "8", "9", ":", ";", "<", "=", ">", "?",
     "@", "A", "B", "C", "D", "E", "F", "G", "H", "I", "J", "K", "L", "M", "N", "O",
     "P", "Q", "R", "S", "T", "U", "V", "W", "X", "Y", "Z", "[", "backslash", "]", "^", "_",
     "backtick", "a", "b", "c", "d", "e", "f", "g", "h", "i", "j", "k", "l", "m", "n", "o",
     "p", "q", "r", "s", "t", "u", "v", "w", "x", "y", "z", "{", "|", "}", "~" >>

Ord(c) == 31 + CHOOSE i \in DOMAIN AsciiChars : AsciiChars[i] = c

\* A function on 1..n written out as a tuple.
Tuple(f) == << >> \o f

Text(cs) == Tuple([i \in DOMAIN cs |-> Ord(cs[i])])

\* str.isspace for the code points below U+0800.
IsSpace(cp) == cp \in (9..13) \cup (28..32) \cup {133, 160}

\* str.strip(): drop leading and trailing whitespace.
Strip(s) ==
  LET idx == {i \in DOMAIN s : ~IsSpace(s[i])}
  IN  IF idx = {} THEN << >>
      ELSE LET lo == CHOOSE i \in idx : \A j \in idx : i <= j
               hi == CHOOSE i \in idx : \A j \in idx : i >= j
           IN  SubSeq(s, lo, hi)

(***************************************************************************)
(* str(int) and int(str)                                                   *)
(***************************************************************************)
RECURSIVE NatDigits(_)
NatDigits(n) ==
  IF n < 10 THEN << 48 + n >> ELSE Append(NatDigits(n \div 10), 48 + (n % 10))

\* str(a) for a Python int.
PyStr(a) == IF a < 0 THEN << 45 >> \o NatDigits(0 - a) ELSE NatDigits(a)

\* Decimal digit value of a code point (Unicode category Nd below U+0800),
\* or -1.
DigitVal(cp) ==
  IF cp \in 48..57 THEN cp - 48
  ELSE IF cp \in 1632..1641 THEN cp - 1632
  ELSE IF cp \in 1776..1785 THEN cp - 1776
  ELSE IF cp \in 1984..1993 THEN cp - 1984
  ELSE -1

RECURSIVE DigitsValue(_)
DigitsValue(ds) ==
  IF ds = << >> THEN 0
  ELSE DigitsValue(SubSeq(ds, 1, Len(ds) - 1)) * 10 + DigitVal(ds[Len(ds)])

\* The digit part of an int literal: digits with single underscores between
\* digits.
IsIntBody(s) ==
  /\ s # << >>
  /\ \A i \in DOMAIN s : DigitVal(s[i]) >= 0 \/ s[i] = 95
  /\ DigitVal(s[1]) >= 0
  /\ DigitVal(s[Len(s)]) >= 0
  /\ \A i \in 1..(Len(s) - 1) : ~(s[i] = 95 /\ s[i + 1] = 95)

NoUnderscore(cp) == cp # 95

\* int(s) in base 10: [ok |-> TRUE, val |-> n] or ok = FALSE (ValueError).
PyInt(s) ==
  LET t    == Strip(s)
      sgn  == t # << >> /\ t[1] \in {43, 45}
      body == IF sgn THEN Tail(t) ELSE t
  IN  IF IsIntBody(body)
      THEN LET n == DigitsValue(SelectSeq(body, NoUnderscore))
           IN  [ok |-> TRUE, val |-> IF sgn /\ t[1] = 45 THEN 0 - n ELSE n]
      ELSE [ok |-> FALSE, val |-> 0]

(***************************************************************************)
(* UTF-8                                                                   *)
(***************************************************************************)
\* str.encode() for code points below U+0800.
RECURSIVE Utf8Encode(_)
Utf8Encode(s) ==
  IF s = << >> THEN << >>
  ELSE LET cp == Head(s)
       IN  (IF cp < 128 THEN << cp >>
            ELSE << 192 + (cp \div 64), 128 + (cp % 64) >>) \o Utf8Encode(Tail(s))

\* bytes.decode(): [ok |-> TRUE, str |-> code points] or ok = FALSE
\* (UnicodeDecodeError).  One- and two-byte sequences are decoded; a lead
\* byte of a longer sequence is outside the modelled range of payloads.
RECURSIVE Utf8Decode(_)
Utf8Decode(bs) ==
  IF bs = << >> THEN [ok |-> TRUE, str |-> << >>]
  ELSE LET b == Head(bs)
       IN  IF b < 128
           THEN LET r == Utf8Decode(Tail(bs))
                IN  [ok |-> r.ok, str |-> << b >> \o r.str]
           ELSE IF b \in 194..223 /\ Len(bs) >= 2 /\ bs[2] \in 128..191
           THEN LET r == Utf8Decode(SubSeq(bs, 3, Len(bs)))
                IN  [ok |-> r.ok, str |-> << (b - 192) * 64 + (bs[2] - 128) >> \o r.str]
           ELSE [ok |-> FALSE, str |-> << >>]

(***************************************************************************)
(* Base64 (base64.b64encode / base64.b64decode with validate=False)        *)
(***************************************************************************)
B64Alphabet ==
  Text(<< "A", "B", "C", "D", "E", "F", "G", "H", "I", "J", "K", "L", "M", "N", "O", "P",
          "Q", "R", "S", "T", "U", "V", "W", "X", "Y", "Z", "a", "b", "c", "d", "e", "f",
          "g", "h", "i", "j", "k", "l", "m", "n", "o", "p", "q", "r", "s", "t", "u", "v",
          "w", "x", "y", "z", "0", "1", "2", "3", "4", "5", "6", "7", "8", "9", "+", "/" >>)

B64Pad == 61

IsB64Char(b) == \E i \in DOMAIN B64Alphabet : B64Alphabet[i] = b

B64Index(b) == (CHOOSE i \in DOMAIN B64Alphabet : B64Alphabet[i] = b) - 1

B64Char(v) == B64Alphabet[v + 1]

RECURSIVE b64encode(_)
b64encode(bs) ==
  IF bs = << >> THEN << >>
  ELSE IF Len(bs) = 1
  THEN << B64Char(bs[1] \div 4), B64Char((bs[1] % 4) * 16), B64Pad, B64Pad >>
  ELSE IF Len(bs) = 2
  THEN << B64Char(bs[1] \div 4),
          B64Char((bs[1] % 4) * 16 + (bs[2] \div 16)),
          B64Char((bs[2] % 16) * 4), B64Pad >>
  ELSE << B64Char(bs[1] \div 4),
          B64Char((bs[1] % 4) * 16 + (bs[2] \div 16)),
          B64Char((bs[2] % 16) * 4 + (bs[3] \div 64)),
          B64Char(bs[3] % 64) >> \o b64encode(SubSeq(bs, 4, Len(bs)))

\* binascii.a2b_base64 in non-strict mode: characters outside the alphabet
\* are skipped, a pad sequence that completes a quad ends the input, and an
\* incomplete final quad raises binascii.Error.
\* quad: characters of the current quad so far; left: bits carried over;
\* pads: consecutive pad characters seen.
RECURSIVE B64Scan(_, _, _, _, _)
B64Scan(s, quad, left, pads, out) ==
  IF s = << >>
  THEN [ok |-> quad = 0, bytes |-> out]
  ELSE LET ch == Head(s)
       IN  IF ch = B64Pad
           THEN IF quad >= 2 /\ quad + pads + 1 >= 4
                THEN [ok |-> TRUE, bytes |-> out]
                ELSE B64Scan(Tail(s), quad, left,
                             IF quad >= 2 THEN pads + 1 ELSE pads, out)
           ELSE IF ~IsB64Char(ch)
           THEN B64Scan(Tail(s), quad, left, pads, out)
           ELSE LET v == B64Index(ch)
                IN  IF quad = 0 THEN B64Scan(Tail(s), 1, v, 0, out)
                    ELSE IF quad = 1
                    THEN B64Scan(Tail(s), 2, v % 16, 0,
                                 Append(out, left * 4 + (v \div 16)))
                    ELSE IF quad = 2
                    THEN B64Scan(Tail(s), 3, v % 4, 0,
                                 Append(out, left * 16 + (v \div 4)))
                    ELSE B64Scan(Tail(s), 0, 0, 0, Append(out, left * 64 + v))

b64decode(bs) == B64Scan(bs, 0, 0, 0, << >>)

(***************************************************************************)
(* Problem codec                                                           *)
(***************************************************************************)
\* The "no value" result of decode_problem.
None == [none |-> TRUE]

IsNone(x) == x = None

\* encode_problem that leaves the padding off.
encode_problem_Unpadded(a) ==
  SelectSeq(b64encode(Utf8Encode(PyStr(a))), LAMBDA ch : ch # B64Pad)

\* base64.b64encode(str(a).encode()).decode()
encode_problem(a) == b64encode(Utf8Encode(PyStr(a)))

\* decode_problem without its handler: the exception gets out.
decode_problem_NoHandler(code) ==
  LET raw == b64decode(Utf8Encode(code))
      txt == Utf8Decode(raw.bytes)
      num == PyInt(txt.str)
  IN  IF raw.ok /\ txt.ok /\ num.ok
      THEN [none |-> FALSE, val |-> num.val]
      ELSE [none |-> FALSE, raised |-> TRUE]

\* int(base64.b64decode(code.encode()).decode()), None on any exception.
decode_problem(code) ==
  LET raw == b64decode(Utf8Encode(code))
      txt == Utf8Decode(raw.bytes)
      num == PyInt(txt.str)
  IN  IF raw.ok /\ txt.ok /\ num.ok
      THEN [none |-> FALSE, val |-> num.val]
      ELSE None

(***************************************************************************)
(* Binary floating point (Python float, IEEE-754 binary64)                 *)
(*                                                                         *)
(* A magnitude is a fixed-point bit string, most significant bit first:    *)
(* IntBits integer bits followed by FracBits fraction bits.  A float is a  *)
(* sign and a magnitude with at most Mant significant bits.                *)
(***************************************************************************)
Mant == 53

IntBits == 8

\* The fraction is computed in chunks of 8 bits.
FracChunks == 9

FracBits == 8 * FracChunks

Width == IntBits + FracBits

\* The k-bit binary numeral of n.
RECURSIVE NatBits(_, _)
NatBits(n, k) ==
  IF k = 0 THEN << >> ELSE Append(NatBits(n \div 2, k - 1), n % 2)

\* The first 8*n fraction bits of r/q (r < q), appended to acc, and whether
\* a remainder is left.
RECURSIVE FracDiv(_, _, _, _)
FracDiv(r, q, n, acc) ==
  IF n = 0 THEN [bits |-> acc, sticky |-> r # 0]
  ELSE FracDiv((r * 256) % q, q, n - 1, acc \o NatBits((r * 256) \div q, 8))

\* p/q truncated to Width bits, with the sticky flag of what was cut off.
ToFixed(p, q) == FracDiv(p % q, q, FracChunks, NatBits(p \div q, IntBits))

ZeroBits == Tuple([i \in 1..Width |-> 0])

\* bits + 1 unit in position k.
Incr(bits, k) ==
  LET j == CHOOSE i \in 1..k :
             bits[i] = 0 /\ \A m \in (i + 1)..k : bits[m] = 1
  IN  Tuple([i \in 1..Width |->
               IF i = j THEN 1 ELSE IF i > j /\ i <= k THEN 0 ELSE bits[i]])

\* Round to nearest, ties to even, keeping Mant significant bits.
Round53(fx) ==
  LET bits == fx.bits
      ones == {i \in 1..Width : bits[i] = 1}
  IN  IF ones = {} THEN bits
      ELSE LET lead == CHOOSE i \in ones : \A j \in ones : i <= j
               low == lead + Mant - 1
           IN  IF low >= Width THEN bits
               ELSE LET guard == bits[low + 1]
                        rest  == fx.sticky \/ \E i \in (low + 2)..Width : bits[i] = 1
                        up    == guard = 1 /\ (rest \/ bits[low] = 1)
                        trunc == Tuple([i \in 1..Width |->
                                         IF i <= low THEN bits[i] ELSE 0])
                    IN  IF up THEN Incr(trunc, low) ELSE trunc

BitsLess(x, y) ==
  \E i \in 1..Width : x[i] < y[i] /\ \A j \in 1..(i - 1) : x[j] = y[j]

\* x + y: the carry into position i comes from the nearest lower position
\* that generates one, through positions that propagate it.
BitsAdd(x, y) ==
  LET carry(i) == \E j \in (i + 1)..Width :
                    /\ x[j] + y[j] = 2
                    /\ \A k \in (i + 1)..(j - 1) : x[k] + y[k] = 1
  IN  Tuple([i \in 1..Width |->
               (x[i] + y[i] + (IF carry(i) THEN 1 ELSE 0)) % 2])

\* x - y for x >= y, with the borrows found the same way.
BitsSub(x, y) ==
  LET borrow(i) == \E j \in (i + 1)..Width :
                     /\ x[j] < y[j]
                     /\ \A k \in (i + 1)..(j - 1) : x[k] = y[k]
  IN  Tuple([i \in 1..Width |->
               (2 + x[i] - y[i] - (IF borrow(i) THEN 1 ELSE 0)) % 2])

\* The float nearest to (-1)^neg * p/q.
FloatOf(neg, p, q) == [neg |-> neg /\ p # 0, bits |-> Round53(ToFixed(p, q))]

\* abs(x - y) in float arithmetic: the exact difference, rounded.
FloatAbsDiff(x, y) ==
  IF x.neg = y.neg
  THEN IF BitsLess(x.bits, y.bits)
       THEN Round53([bits |-> BitsSub(y.bits, x.bits), sticky |-> FALSE])
       ELSE Round53([bits |-> BitsSub(x.bits, y.bits), sticky |-> FALSE])
  ELSE Round53([bits |-> BitsAdd(x.bits, y.bits), sticky |-> FALSE])

\* The literal 1e-4.
Tolerance == Round53(ToFixed(1, 10000))

(***************************************************************************)
(* sympy.sympify, restricted to the inputs the model draws: an optional    *)
(* minus sign, then a name, a decimal numeral, an integer numeral, or two  *)
(* integer numerals joined by "/" or "%".  Names stand for plain symbols   *)
(* (no Python keyword, no name sympy predefines).                          *)
(***************************************************************************)
IsDigits(s) == s # << >> /\ \A i \in DOMAIN s : s[i] \in 48..57

\* A decimal integer literal of Python: no leading zero unless it is zero.
IsIntLiteral(s) ==
  IsDigits(s) /\ (s[1] # 48 \/ \A i \in DOMAIN s : s[i] = 48)

IsDot(cp) == cp = 46

NotDot(cp) == cp # 46

\* A literal with a decimal point: digits around exactly one point.
IsDecimalLiteral(s) ==
  /\ Len(SelectSeq(s, IsDot)) = 1
  /\ IsDigits(SelectSeq(s, NotDot))

IsName(s) == s # << >> /\ \A i \in DOMAIN s : s[i] \in 97..122

RECURSIVE Pow10(_)
Pow10(n) == IF n = 0 THEN 1 ELSE 10 * Pow10(n - 1)

Parsed(e) == [raised |-> FALSE, exc |-> "", expr |-> e]

ParseError(x) == [raised |-> TRUE, exc |-> x, expr |-> [kind |-> "none"]]

Number(kind, neg, p, q) ==
  [kind |-> kind, neg |-> neg /\ p # 0, p |-> p, q |-> q]

\* Integer(p) / Integer(q), evaluated by sympy.
IntegerDiv(neg, p, q) ==
  IF q # 0 THEN Parsed(Number("Rational", neg, p, q))
  ELSE IF p = 0 THEN Parsed([kind |-> "nan"])
  ELSE Parsed([kind |-> "zoo"])

\* Integer(p) % Integer(q), which is Python's p % q.
IntegerMod(neg, p, q) ==
  IF q = 0 THEN ParseError("ZeroDivisionError")
  ELSE Parsed(Number("Rational", FALSE,
                     IF neg THEN (q - (p % q)) % q ELSE p % q, 1))

sympify(a) ==
  LET t    == Strip(a)
      neg  == t # << >> /\ t[1] = 45
      body == IF neg THEN Tail(t) ELSE t
      ops  == {i \in DOMAIN body : body[i] \in {37, 47}}
  IN  IF ops = {}
      THEN IF IsName(body) THEN Parsed([kind |-> "Symbol"])
           ELSE IF IsIntLiteral(body)
           THEN Parsed(Number("Rational", neg, DigitsValue(body), 1))
           ELSE IF IsDecimalLiteral(body)
           THEN LET dot == CHOOSE i \in DOMAIN body : body[i] = 46
                IN  Parsed(Number("Float", neg,
                                  DigitsValue(SelectSeq(body, NotDot)),
                                  Pow10(Len(body) - dot)))
           ELSE ParseError("SympifyError")
      ELSE IF Cardinality(ops) = 1
      THEN LET i == CHOOSE i \in ops : TRUE
               l == SubSeq(body, 1, i - 1)
               r == SubSeq(body, i + 1, Len(body))
           IN  IF IsIntLiteral(l) /\ IsIntLiteral(r)
               THEN IF body[i] = 47
                    THEN IntegerDiv(neg, DigitsValue(l), DigitsValue(r))
                    ELSE IntegerMod(neg, DigitsValue(l), DigitsValue(r))
               ELSE ParseError("SympifyError")
      ELSE ParseError("SympifyError")

\* sp.Rational(1, q)
Rational1(q) ==
  IF q > 0 THEN Number("Rational", FALSE, 1, q)
  ELSE IF q < 0 THEN Number("Rational", TRUE, 1, 0 - q)
  ELSE [kind |-> "zoo"]

IsNumber(e) == e.kind \in {"Rational", "Float"}

\* float(expr): a float, nan, or TypeError.
PyFloat(e) ==
  IF IsNumber(e)
  THEN [raised |-> FALSE, exc |-> "", nan |-> FALSE, val |-> FloatOf(e.neg, e.p, e.q)]
  ELSE IF e.kind = "nan"
  THEN [raised |-> FALSE, exc |-> "", nan |-> TRUE, val |-> FloatOf(FALSE, 0, 1)]
  ELSE [raised |-> TRUE, exc |-> "TypeError", nan |-> FALSE, val |-> FloatOf(FALSE, 0, 1)]

\* sp.simplify(u - c) == 0 for a parsed input u and a rational c: exact for
\* a Rational, in float arithmetic for a Float.
SimplifiesToZero(u, c) ==
  /\ IsNumber(u)
  /\ IsNumber(c)
  /\ IF u.kind = "Rational"
     THEN u.neg = c.neg /\ u.p * c.q = c.p * u.q
     ELSE FloatOf(u.neg, u.p, u.q) = FloatOf(c.neg, c.p, c.q)

(***************************************************************************)
(* Answer verifier                                                         *)
(***************************************************************************)
Returns(b) == [raised |-> FALSE, ret |-> b, exc |-> ""]

Raises(x) == [raised |-> TRUE, ret |-> FALSE, exc |-> x]

\* except (sp.SympifyError, ValueError, TypeError, AttributeError)
Caught == {"SympifyError", "ValueError", "TypeError", "AttributeError"}

Handle(x) == IF x \in Caught THEN Returns(FALSE) ELSE Raises(x)

\* check_answer without the float comparison: only the symbolic test.
check_answer_ExactOnly(user_input, correct_a) ==
  IF Strip(user_input) = << >> THEN Returns(FALSE)
  ELSE LET user == sympify(user_input)
       IN  IF user.raised THEN Handle(user.exc)
           ELSE LET fu == PyFloat(user.expr)
                IN  IF SimplifiesToZero(user.expr, Rational1(correct_a))
                    THEN Returns(TRUE)
                    ELSE IF fu.raised THEN Handle(fu.exc)
                    ELSE Returns(FALSE)

check_answer(user_input, correct_a) ==
  IF Strip(user_input) = << >> THEN Returns(FALSE)
  ELSE LET user == sympify(user_input)
       IN  IF user.raised THEN Handle(user.exc)
           ELSE LET correct_sym == Rational1(correct_a)
                IN  IF SimplifiesToZero(user.expr, correct_sym)
                    THEN Returns(TRUE)
                    ELSE LET fu == PyFloat(user.expr)
                             fc == PyFloat(correct_sym)
                         IN  IF fu.raised THEN Handle(fu.exc)
                             ELSE IF fc.raised THEN Handle(fc.exc)
                             ELSE IF fu.nan \/ fc.nan THEN Returns(FALSE)
                             ELSE Returns(BitsLess(FloatAbsDiff(fu.val, fc.val),
                                                   Tolerance))

(***************************************************************************)
(* Problems                                                                *)
(***************************************************************************)
\* The coefficients with b = c instead of b = c - 1.
Problem_BEqualsC(a) ==
  LET c == a * a + 2
      b == c
  IN  [a |-> a, b |-> b, c |-> c]

\* c = a**2 + 2; b = c - 1
Problem(a) ==
  LET c == a * a + 2
      b == c - 1
  IN  [a |-> a, b |-> b, c |-> c]

\* The problems generate_problem can return: a = random.randint(2, 12).
generate_problem == {Problem(a) : a \in 2..12}

EmptyDict == [k \in {} |-> 0]

\* The problem of the share link, or None.
load_problem_from_url(params) ==
  IF "problem_id" \in DOMAIN params
  THEN LET a == decode_problem(params.problem_id)
       IN  IF ~IsNone(a) /\ a.val # 0
           THEN [none |-> FALSE, val |-> Problem(a.val)]
           ELSE None
  ELSE None

(***************************************************************************)
(* Bounds of the model                                                     *)
(***************************************************************************)
\* Judged submissions per problem.
MaxHist == 4

\* Submissions are accepted while total_correct is below this.
MaxTotal == 2

\* Share-link tokens a session can start with: "Nw==" (7), "MTM=" (13),
\* "LTM=" (-3), "MA==" (0), "YWJj" (abc) and "Mg" (cut short).
Tokens ==
  { Text(<< "N", "w", "=", "=" >>), Text(<< "M", "T", "M", "=" >>),
    Text(<< "L", "T", "M", "=" >>), Text(<< "M", "A", "=", "=" >>),
    Text(<< "Y", "W", "J", "j" >>), Text(<< "M", "g" >>) }

\* The values of a a session's problem can have.
ProblemAs ==
  (2..12) \cup {decode_problem(t).val : t \in {u \in Tokens : ~IsNone(decode_problem(u))}}

Abs(n) == IF n < 0 THEN 0 - n ELSE n

Sign(a) == IF a < 0 THEN << 45 >> ELSE << >>

\* n as k decimal digits.
RECURSIVE PadDigits(_, _)
PadDigits(n, k) ==
  IF k = 0 THEN << >> ELSE Append(PadDigits(n \div 10, k - 1), 48 + (n % 10))

\* "1/a", the answer in exact form.
ExactAnswer(a) == Sign(a) \o Text(<< "1", "/" >>) \o NatDigits(Abs(a))

\* 1/a cut to six decimals, as "0.dddddd".
DecimalAnswer(a) ==
  Sign(a) \o Text(<< "0", "." >>) \o PadDigits(1000000 \div Abs(a), 6)

\* "1/(a+1)", the answer of another problem.
WrongAnswer(a) == Sign(a) \o Text(<< "1", "/" >>) \o NatDigits(Abs(a) + 1)

\* What the user types into the answer field of a problem with this a.
SubmitInputs(a) ==
  { ExactAnswer(a), DecimalAnswer(a), WrongAnswer(a),
    << >>, Text(<< "a", "b", "c" >>), Text(<< "1", "/" >>),
    Text(<< "1", "%", "0" >>) }

\* check_answer on the inputs of the session, computed once.
CheckMemo ==
  { << x, check_answer(x[1], x[2]) >> :
      x \in UNION {SubmitInputs(a) \X {a} : a \in ProblemAs \ {0}} }

Check(user_input, correct_a) ==
  (CHOOSE m \in CheckMemo : m[1] = << user_input, correct_a >>)[2]

(***************************************************************************)
(* Session                                                                 *)
(***************************************************************************)
VARIABLES
  session_state,   \* st.session_state: a dict from key to value
  query_params,    \* st.query_params: a dict, with the key problem_id or not
  ui,              \* what the last script run displayed
  last,            \* the last user action and the verdict on it
  pre,             \* the progress fields before the last user action
  hist,            \* verdicts of the submissions on the current problem
  base,            \* total_correct when the current problem was shown
  chk              \* a call of one function on its own: arguments and result

vars == << session_state, query_params, ui, last, pre, hist, base, chk >>

NoUi == [toast |-> "", msg |-> "", remaining |-> 0, hint |-> 0, balloons |-> FALSE]

Toast(t) == [NoUi EXCEPT !.toast = t]

Message(m) == [NoUi EXCEPT !.msg = m]

NoCheck == [state |-> "idle"]

ProgressKeys ==
  {"streak", "total_correct", "attempts", "problem_solved", "failed", "show_solution"}

Progress(ss) == [k \in ProgressKeys \cap DOMAIN ss |-> ss[k]]

\* for key, default in [...]: if key not in st.session_state
Defaults ==
  [streak |-> 0, total_correct |-> 0, attempts |-> 0,
   problem_solved |-> FALSE, failed |-> FALSE, show_solution |-> FALSE]

Started == "problem" \in DOMAIN session_state

Init ==
  /\ session_state = EmptyDict
  /\ query_params \in {EmptyDict} \cup {[problem_id |-> t] : t \in Tokens}
  /\ ui = NoUi
  /\ last = [op |-> "start", verdict |-> "none"]
  /\ pre = EmptyDict
  /\ hist = << >>
  /\ base = 0
  /\ chk = NoCheck

\* The first script run of a session: the problem comes from the share link
\* or from the generator, the metrics get their defaults and the answer
\* field is created empty.
FirstRun ==
  /\ ~Started
  /\ \E fresh \in generate_problem :
       LET url_prob == load_problem_from_url(query_params)
           prob     == IF ~IsNone(url_prob) THEN url_prob.val ELSE fresh
           keys     == {"problem", "user_input"} \cup DOMAIN Defaults
       IN  /\ session_state' =
                [k \in keys |->
                   IF k \in DOMAIN session_state THEN session_state[k]
                   ELSE IF k = "problem" THEN prob
                   ELSE IF k = "user_input" THEN << >>
                   ELSE Defaults[k]]
           /\ ui' = IF ~IsNone(url_prob) THEN Toast("Challenge Problem Loaded!")
                    ELSE NoUi
  /\ last' = [op |-> "init", verdict |-> "none"]
  /\ pre' = Progress(session_state)
  /\ base' = session_state'.total_correct
  /\ UNCHANGED << query_params, hist, chk >>

\* reset_problem that also starts the streak over.
reset_problem_ClearsStreak(ss, fresh) ==
  [ss EXCEPT !.problem = fresh, !.user_input = << >>, !.streak = 0,
             !.problem_solved = FALSE, !.failed = FALSE,
             !.attempts = 0, !.show_solution = FALSE]

\* reset_problem that also starts total_correct over.
reset_problem_ClearsTotal(ss, fresh) ==
  [ss EXCEPT !.problem = fresh, !.user_input = << >>, !.total_correct = 0,
             !.problem_solved = FALSE, !.failed = FALSE,
             !.attempts = 0, !.show_solution = FALSE]

\* reset_problem with a given result of generate_problem.
reset_problem(ss, fresh) ==
  [ss EXCEPT !.problem = fresh, !.user_input = << >>,
             !.problem_solved = FALSE, !.failed = FALSE,
             !.attempts = 0, !.show_solution = FALSE]

\* The New Problem button: the callback, then a script run that shows the
\* new problem.
NewProblem ==
  /\ Started
  /\ \E fresh \in generate_problem :
       session_state' = reset_problem(session_state, fresh)
  /\ query_params' = EmptyDict
  /\ ui' = NoUi
  /\ last' = [op |-> "new", verdict |-> "none"]
  /\ pre' = Progress(session_state)
  /\ hist' = << >>
  /\ base' = session_state.total_correct
  /\ UNCHANGED chk

\* The Challenge a Friend button.
Share ==
  /\ Started
  /\ query_params' = [k \in DOMAIN query_params \cup {"problem_id"} |->
                        encode_problem(session_state.problem.a)]
  /\ ui' = Toast("URL updated! Copy it from your address bar.")
  /\ last' = [op |-> "share", verdict |-> "none"]
  /\ pre' = Progress(session_state)
  /\ UNCHANGED << session_state, hist, base, chk >>

\* Variants of the feedback logic, each with one slip.
Credit(ss) ==
  [ss EXCEPT !.streak = @ + 1, !.total_correct = @ + 1, !.problem_solved = TRUE,
             !.failed = FALSE, !.show_solution = TRUE]

Exhaust(ss) ==
  [ss EXCEPT !.streak = 0, !.attempts = @ + 1, !.problem_solved = TRUE,
             !.failed = TRUE, !.show_solution = TRUE]

Retry(ss) == [ss EXCEPT !.streak = 0, !.attempts = @ + 1]

\* The budget of attempts is two instead of three.
Feedback_TwoAttempts(ss, is_correct) ==
  IF is_correct
  THEN IF ss.failed \/ ss.problem_solved THEN [ss |-> ss, ui |-> Message("correct")]
       ELSE [ss |-> Credit(ss), ui |-> Message("correct")]
  ELSE IF ss.failed \/ ss.problem_solved THEN [ss |-> ss, ui |-> Message("answer")]
       ELSE IF 2 - (ss.attempts + 1) > 0
            THEN [ss |-> Retry(ss), ui |-> Message("not quite")]
            ELSE [ss |-> Exhaust(ss), ui |-> Message("answer")]

\* The third wrong answer is treated like the first two.
Feedback_NeverExhausts(ss, is_correct) ==
  IF is_correct
  THEN IF ss.failed \/ ss.problem_solved THEN [ss |-> ss, ui |-> Message("correct")]
       ELSE [ss |-> Credit(ss), ui |-> Message("correct")]
  ELSE IF ss.failed \/ ss.problem_solved THEN [ss |-> ss, ui |-> Message("answer")]
       ELSE [ss |-> Retry(ss), ui |-> Message("not quite")]

\* A correct answer does not count towards total_correct.
Feedback_NoCount(ss, is_correct) ==
  IF is_correct
  THEN IF ss.failed \/ ss.problem_solved THEN [ss |-> ss, ui |-> Message("correct")]
       ELSE [ss |-> [Credit(ss) EXCEPT !.total_correct = ss.total_correct],
             ui |-> Message("correct")]
  ELSE IF ss.failed \/ ss.problem_solved THEN [ss |-> ss, ui |-> Message("answer")]
       ELSE IF 3 - (ss.attempts + 1) > 0
            THEN [ss |-> Retry(ss), ui |-> Message("not quite")]
            ELSE [ss |-> Exhaust(ss), ui |-> Message("answer")]

\* A wrong answer leaves the streak alone.
Feedback_KeepsStreak(ss, is_correct) ==
  IF is_correct
  THEN IF ss.failed \/ ss.problem_solved THEN [ss |-> ss, ui |-> Message("correct")]
       ELSE [ss |-> Credit(ss), ui |-> Message("correct")]
  ELSE IF ss.failed \/ ss.problem_solved THEN [ss |-> ss, ui |-> Message("answer")]
       ELSE IF 3 - (ss.attempts + 1) > 0
            THEN [ss |-> [Retry(ss) EXCEPT !.streak = ss.streak],
                  ui |-> Message("not quite")]
            ELSE [ss |-> [Exhaust(ss) EXCEPT !.streak = ss.streak],
                  ui |-> Message("answer")]

\* A correct answer is credited without looking at failed.
Feedback_CreditsFailed(ss, is_correct) ==
  IF is_correct
  THEN IF ss.problem_solved /\ ~ss.failed THEN [ss |-> ss, ui |-> Message("correct")]
       ELSE [ss |-> Credit(ss), ui |-> Message("correct")]
  ELSE IF ss.failed \/ ss.problem_solved THEN [ss |-> ss, ui |-> Message("answer")]
       ELSE IF 3 - (ss.attempts + 1) > 0
            THEN [ss |-> Retry(ss), ui |-> Message("not quite")]
            ELSE [ss |-> Exhaust(ss), ui |-> Message("answer")]

\* A correct answer is credited without looking at problem_solved.
Feedback_CreditsAgain(ss, is_correct) ==
  IF is_correct
  THEN IF ss.failed THEN [ss |-> ss, ui |-> Message("correct")]
       ELSE [ss |-> Credit(ss), ui |-> Message("correct")]
  ELSE IF ss.failed \/ ss.problem_solved THEN [ss |-> ss, ui |-> Message("answer")]
       ELSE IF 3 - (ss.attempts + 1) > 0
            THEN [ss |-> Retry(ss), ui |-> Message("not quite")]
            ELSE [ss |-> Exhaust(ss), ui |-> Message("answer")]

\* A wrong answer is penalised on a solved problem too.
Feedback_PenalisesSolved(ss, is_correct) ==
  IF is_correct
  THEN IF ss.failed \/ ss.problem_solved THEN [ss |-> ss, ui |-> Message("correct")]
       ELSE [ss |-> Credit(ss), ui |-> Message("correct")]
  ELSE IF ss.failed THEN [ss |-> ss, ui |-> Message("answer")]
       ELSE IF 3 - (ss.attempts + 1) > 0
            THEN [ss |-> Retry(ss), ui |-> Message("not quite")]
            ELSE [ss |-> Exhaust(ss), ui |-> Message("answer")]

\* The budget of attempts is four instead of three.
Feedback_FourAttempts(ss, is_correct) ==
  IF is_correct
  THEN IF ss.failed \/ ss.problem_solved THEN [ss |-> ss, ui |-> Message("correct")]
       ELSE [ss |-> Credit(ss), ui |-> Message("correct")]
  ELSE IF ss.failed \/ ss.problem_solved THEN [ss |-> ss, ui |-> Message("answer")]
       ELSE IF 4 - (ss.attempts + 1) > 0
            THEN [ss |-> Retry(ss), ui |-> Message("not quite")]
            ELSE [ss |-> Exhaust(ss), ui |-> Message("answer")]

\* The two hints change places.
Feedback_SwappedHints(ss, is_correct) ==
  IF is_correct
  THEN IF ss.failed \/ ss.problem_solved THEN [ss |-> ss, ui |-> Message("correct")]
       ELSE [ss |-> Credit(ss), ui |-> Message("correct")]
  ELSE IF ss.failed \/ ss.problem_solved THEN [ss |-> ss, ui |-> Message("answer")]
       ELSE LET attempts_left == 3 - (ss.attempts + 1)
            IN  IF attempts_left > 0
                THEN [ss |-> Retry(ss),
                      ui |-> [Message("not quite") EXCEPT
                                !.remaining = attempts_left,
                                !.hint = IF attempts_left = 2 THEN 2 ELSE 1]]
                ELSE [ss |-> Exhaust(ss), ui |-> Message("answer")]

\* The feedback and evaluation logic of a submission with verdict
\* is_correct: the session state and the display it leaves.
Feedback(ss, is_correct) ==
  IF is_correct
  THEN IF ss.failed
       THEN [ss |-> ss, ui |-> Message("used all attempts")]
       ELSE [ss |-> IF ~ss.problem_solved
                    THEN [ss EXCEPT !.streak = @ + 1, !.total_correct = @ + 1,
                                    !.problem_solved = TRUE, !.failed = FALSE,
                                    !.show_solution = TRUE]
                    ELSE [ss EXCEPT !.show_solution = TRUE],
             ui |-> [Message("correct") EXCEPT !.balloons = ~ss.problem_solved]]
  ELSE IF ss.failed
       THEN [ss |-> ss, ui |-> Message("answer")]
       ELSE IF ss.problem_solved
       THEN [ss |-> ss, ui |-> Message("solved earlier")]
       ELSE LET attempts      == ss.attempts + 1
                attempts_left == 3 - attempts
            IN  IF attempts_left > 0
                THEN [ss |-> [ss EXCEPT !.streak = 0, !.attempts = attempts],
                      ui |-> [Message("not quite") EXCEPT
                                !.remaining = attempts_left,
                                !.hint = IF attempts_left = 2 THEN 1
                                         ELSE IF attempts_left = 1 THEN 2 ELSE 0]]
                ELSE [ss |-> [ss EXCEPT !.streak = 0, !.attempts = attempts,
                                        !.problem_solved = TRUE, !.failed = TRUE,
                                        !.show_solution = TRUE],
                      ui |-> Message("answer")]

Verdict(r) ==
  IF r.raised THEN "error" ELSE IF r.ret THEN "correct" ELSE "incorrect"

\* The Submit button of the answer form: the verdict of check_answer, then
\* the feedback.  An exception of check_answer ends the script run.
Submit ==
  /\ Started
  /\ Len(hist) < MaxHist
  /\ session_state.total_correct < MaxTotal
  /\ \E user_answer \in SubmitInputs(session_state.problem.a) :
       LET correct_a == session_state.problem.a
           r         == Check(user_answer, correct_a)
           ss        == [session_state EXCEPT !.user_input = user_answer]
       IN  /\ last' = [op |-> "submit", verdict |-> Verdict(r)]
           /\ IF r.raised
              THEN /\ session_state' = ss
                   /\ ui' = Message(r.exc)
                   /\ hist' = hist
              ELSE /\ session_state' = Feedback(ss, r.ret).ss
                   /\ ui' = Feedback(ss, r.ret).ui
                   /\ hist' = Append(hist, r.ret)
  /\ pre' = Progress(session_state)
  /\ UNCHANGED << query_params, base, chk >>

Next == FirstRun \/ Submit \/ NewProblem \/ Share

Spec == Init /\ [][Next]_vars

(***************************************************************************)
(* check_answer on its own: the arguments are drawn at the start and one   *)
(* step calls the function.                                                *)
(***************************************************************************)
\* The answers of the problems generate_problem can return.
CheckAs == 2..12

Fraction(p, q) == NatDigits(p) \o << 47 >> \o NatDigits(q)

\* 1/a + 1/10000 and 1/a - 1/10000 as fractions.
JustAbove(a) == Fraction(10000 + a, 10000 * a)

JustBelow(a) == Fraction(10000 - a, 10000 * a)

CheckInputs ==
  UNION {{ExactAnswer(a), DecimalAnswer(a), JustAbove(a), JustBelow(a)} : a \in CheckAs}
  \cup { << >>, Text(<< " " >>), Text(<< "a", "b", "c" >>), Text(<< "1", "/" >>),
         Text(<< "1", "%", "0" >>), Text(<< "1", "/", "0" >>), Text(<< "0", "/", "0" >>),
         Text(<< "-", "1", "/", "7" >>), Text(<< "7" >>), Text(<< "0" >>),
         Text(<< "2", "/", "1", "4" >>), Text(<< "0", ".", "5", "0", "0", "1" >>),
         Text(<< "0", ".", "1", "4", "3", "3" >>), Text(<< "8", "%", "7" >>) }

InitCheck ==
  /\ session_state = EmptyDict
  /\ query_params = EmptyDict
  /\ ui = NoUi
  /\ last = [op |-> "start", verdict |-> "none"]
  /\ pre = EmptyDict
  /\ hist = << >>
  /\ base = 0
  /\ chk \in {[state |-> "call", user_input |-> i, correct_a |-> a] :
                i \in CheckInputs, a \in CheckAs}

CheckCall ==
  /\ chk.state = "call"
  /\ chk' = [state |-> "done", user_input |-> chk.user_input,
             correct_a |-> chk.correct_a,
             result |-> check_answer(chk.user_input, chk.correct_a)]
  /\ UNCHANGED << session_state, query_params, ui, last, pre, hist, base >>

NextCheck == CheckCall

SpecCheck == InitCheck /\ [][NextCheck]_vars

(***************************************************************************)
(* Properties of the session                                               *)
(***************************************************************************)
Judged(verdict) == last.op = "submit" /\ last.verdict = verdict

Open(p) == ~p.failed /\ ~p.problem_solved

\* C1: from a fresh problem, three submissions judged incorrect in a row
\* leave attempts = 3 with failed, problem_solved and show_solution set;
\* after one or two of them the three flags are all still unset.
C1_ThreeIncorrectFail ==
  Started =>
    /\ hist = << FALSE, FALSE, FALSE >> =>
         /\ session_state.attempts = 3
         /\ session_state.failed
         /\ session_state.problem_solved
         /\ session_state.show_solution
    /\ hist \in {<< FALSE >>, << FALSE, FALSE >>} =>
         /\ ~session_state.failed
         /\ ~session_state.problem_solved
         /\ ~session_state.show_solution

C1_Witness ==
  /\ Started
  /\ hist = << FALSE, FALSE, FALSE >>
  /\ Judged("incorrect")
  /\ session_state.failed

\* C2: a correct submission on a problem neither failed nor solved adds
\* exactly 1 to streak and to total_correct, sets problem_solved and
\* show_solution, leaves failed unset and attempts as it was.
C2_CorrectCredits ==
  (Judged("correct") /\ Open(pre)) =>
    /\ session_state.streak = pre.streak + 1
    /\ session_state.total_correct = pre.total_correct + 1
    /\ session_state.problem_solved
    /\ session_state.show_solution
    /\ ~session_state.failed
    /\ session_state.attempts = pre.attempts

C2_Witness ==
  /\ Judged("correct")
  /\ Open(pre)
  /\ hist = << TRUE >>
  /\ session_state.attempts = 0
  /\ session_state.total_correct = pre.total_correct + 1

\* C3: New Problem sets attempts to 0 and problem_solved, failed and
\* show_solution to false from any state, and keeps streak and
\* total_correct.
C3_NewProblemResets ==
  last.op = "new" =>
    /\ session_state.attempts = 0
    /\ ~session_state.problem_solved
    /\ ~session_state.failed
    /\ ~session_state.show_solution
    /\ session_state.streak = pre.streak
    /\ session_state.total_correct = pre.total_correct

C3_Witness ==
  /\ last.op = "new"
  /\ pre.attempts = 1
  /\ pre.problem_solved
  /\ pre.streak = 1
  /\ session_state.streak = 1
  /\ session_state.attempts = 0

\* C4: an incorrect submission on a problem neither failed nor solved sets
\* streak to 0 and adds exactly 1 to attempts; total_correct is unchanged,
\* and while the new attempts is below 3 the three flags stay unset.
C4_IncorrectPenalised ==
  (Judged("incorrect") /\ Open(pre)) =>
    /\ session_state.streak = 0
    /\ session_state.attempts = pre.attempts + 1
    /\ session_state.total_correct = pre.total_correct
    /\ session_state.attempts < 3 =>
         /\ ~session_state.problem_solved
         /\ ~session_state.failed
         /\ ~session_state.show_solution

C4_Witness ==
  /\ Judged("incorrect")
  /\ Open(pre)
  /\ pre.streak = 1
  /\ session_state.streak = 0
  /\ session_state.attempts = 1
  /\ ~session_state.failed

\* C5: a correct submission on a failed problem changes none of streak,
\* total_correct, attempts, problem_solved, failed and show_solution.
C5_NoCreditAfterFail ==
  (Judged("correct") /\ pre.failed) => Progress(session_state) = pre

C5_Witness ==
  /\ Judged("correct")
  /\ pre.failed
  /\ hist = << FALSE, FALSE, FALSE, TRUE >>
  /\ session_state.failed

\* C6: a correct submission on a problem already solved (and not failed)
\* changes neither streak nor total_correct: the state after two correct
\* submissions is the state after one.
C6_CorrectIdempotent ==
  (Judged("correct") /\ pre.problem_solved /\ ~pre.failed) =>
    /\ session_state.streak = pre.streak
    /\ session_state.total_correct = pre.total_correct
    /\ Progress(session_state) = pre

C6_Witness ==
  /\ Judged("correct")
  /\ hist = << TRUE, TRUE >>
  /\ pre.problem_solved
  /\ ~pre.failed
  /\ session_state.total_correct = 1

\* C7: an incorrect submission on a resolved problem (failed, or solved and
\* not failed) changes no progress state: streak is not reset and attempts
\* is not incremented.
C7_IncorrectOnResolved ==
  (Judged("incorrect") /\ ~Open(pre)) => Progress(session_state) = pre

C7_Witness ==
  /\ Judged("incorrect")
  /\ hist = << TRUE, FALSE >>
  /\ pre.problem_solved
  /\ ~pre.failed
  /\ session_state.streak = 1
  /\ session_state.attempts = 0

(***************************************************************************)
(* Properties of check_answer                                              *)
(***************************************************************************)
Called == chk.state = "done"

Accepted == Called /\ ~chk.result.raised /\ chk.result.ret

\* The value the input parses to, when it parses to a number.
ParsesToNumber ==
  /\ Strip(chk.user_input) # << >>
  /\ ~sympify(chk.user_input).raised
  /\ IsNumber(sympify(chk.user_input).expr)

Signed(e) == IF e.neg THEN 0 - e.p ELSE e.p

\* v = 1/a, in exact arithmetic.
ExactlyEqual(e, a) == Signed(e) * a = e.q

\* |v - 1/a| < 1/10000, in exact arithmetic.
ExactlyWithin(e, a) == Abs(Signed(e) * a - e.q) <= (e.q * a - 1) \div 10000

\* abs(float(v) - float(1/a)) < 1e-4, in float arithmetic.
FloatWithin(e, a) ==
  BitsLess(FloatAbsDiff(FloatOf(e.neg, e.p, e.q), FloatOf(FALSE, 1, a)), Tolerance)

\* C8 as stated: for correct_a in 2..12 and an input that parses to a
\* rational v, check_answer returns true exactly when v = 1/correct_a or
\* |v - 1/correct_a| < 1e-4 as real numbers.
C8_ExactTolerance ==
  (Called /\ ParsesToNumber) =>
    LET e == sympify(chk.user_input).expr
    IN  Accepted <=> (ExactlyEqual(e, chk.correct_a) \/ ExactlyWithin(e, chk.correct_a))

\* C8: for correct_a in 2..12 and an input that parses to a rational v,
\* check_answer returns true exactly when v = 1/correct_a or the floats
\* nearest to v and to 1/correct_a differ by less than the float 1e-4; the
\* form 1/correct_a and its six-decimal approximation are accepted, and
\* 1/a2 is rejected for every other a2 in 2..12.
C8_FloatTolerance ==
  Called =>
    /\ ParsesToNumber =>
         LET e == sympify(chk.user_input).expr
         IN  Accepted <=> (ExactlyEqual(e, chk.correct_a) \/ FloatWithin(e, chk.correct_a))
    /\ chk.user_input = ExactAnswer(chk.correct_a) => Accepted
    /\ chk.user_input = DecimalAnswer(chk.correct_a) => Accepted
    /\ \A a2 \in CheckAs \ {chk.correct_a} :
         chk.user_input = ExactAnswer(a2) => ~Accepted

\* 5001/10000 is accepted for 1/2 although it is exactly 1e-4 away.
C8_Witness ==
  /\ Called
  /\ chk.correct_a = 2
  /\ chk.user_input = JustAbove(2)
  /\ ~ExactlyWithin(sympify(chk.user_input).expr, 2)
  /\ Accepted

\* C9: check_answer never lets an exception out: it returns false for a
\* blank input, for an input that fails to parse and for an input that has
\* no real value.
C9_NeverRaises ==
  Called =>
    /\ ~chk.result.raised
    /\ (Strip(chk.user_input) = << >> \/ ~ParsesToNumber) => ~chk.result.ret

(***************************************************************************)
(* Properties of the session start                                         *)
(***************************************************************************)
\* C10: after the first script run the problem is a freshly generated one
\* if the share link is absent or its token does not decode, and it is
\* {a, a^2 + 1, a^2 + 2} for the decoded a otherwise, whatever integer a is.
C10_SharedProblemLoaded ==
  last.op = "init" =>
    LET d == IF "problem_id" \in DOMAIN query_params
             THEN decode_problem(query_params.problem_id)
             ELSE None
    IN  IF IsNone(d)
        THEN session_state.problem \in generate_problem /\ ui.toast = ""
        ELSE session_state.problem =
               [a |-> d.val, b |-> d.val * d.val + 1, c |-> d.val * d.val + 2]

(***************************************************************************)
(* The problem codec on its own: an integer is encoded and the token       *)
(* decoded again, or a token of the address bar is decoded.                *)
(***************************************************************************)
\* Integers to encode: the range of generate_problem and values around it.
CodecAs == (0 - 3)..60

\* Payloads that are not the str() of an integer, as bytes.
OddPayloads ==
  { Utf8Encode(Text(<< "a", "b", "c" >>)), Utf8Encode(Text(<< "1", ".", "5" >>)),
    Utf8Encode(Text(<< "1", "_", "2" >>)), Utf8Encode(Text(<< " ", "5" >>)),
    Utf8Encode(Text(<< "+", "7" >>)), Utf8Encode(Text(<< "-" >>)),
    Utf8Encode(Text(<< "1", "_" >>)), Utf8Encode(Text(<< "7", "x" >>)),
    << >>, << 255 >>, << 55, 128 >>, << 217, 163 >> }

DropLast(t) == SubSeq(t, 1, Len(t) - 1)

\* Tokens of the address bar: tokens of encode_problem, the same cut short
\* or with a foreign character in front, and tokens of other payloads.
CodecTokens ==
  LET good == {encode_problem(a) : a \in 0..12}
  IN  good \cup {DropLast(t) : t \in good}
           \cup {SelectSeq(t, LAMBDA ch : ch # B64Pad) : t \in good}
           \cup {Text(<< "!" >>) \o t : t \in good}
           \cup {Text(<< "M" >>) \o t : t \in good}
           \cup {b64encode(bs) : bs \in OddPayloads}

InitCodec ==
  /\ session_state = EmptyDict
  /\ query_params = EmptyDict
  /\ ui = NoUi
  /\ last = [op |-> "start", verdict |-> "none"]
  /\ pre = EmptyDict
  /\ hist = << >>
  /\ base = 0
  /\ chk \in {[state |-> "int", a |-> a] : a \in CodecAs}
             \cup {[state |-> "token", code |-> t] : t \in CodecTokens}

EncodeCall ==
  /\ chk.state = "int"
  /\ chk' = [state |-> "encoded", a |-> chk.a, code |-> encode_problem(chk.a)]
  /\ UNCHANGED << session_state, query_params, ui, last, pre, hist, base >>

DecodeCall ==
  /\ chk.state \in {"encoded", "token"}
  /\ chk' = [chk EXCEPT !.state = IF chk.state = "encoded" THEN "roundtrip"
                                  ELSE "decoded"]
              @@ [result |-> decode_problem(chk.code)]
  /\ UNCHANGED << session_state, query_params, ui, last, pre, hist, base >>

NextCodec == EncodeCall \/ DecodeCall

SpecCodec == InitCodec /\ [][NextCodec]_vars

\* C11: for every integer a in 2..12, decoding the token of a gives a back,
\* and the token of a differs from the token of every other integer in
\* 2..12.
C11_RoundTrip ==
  /\ (chk.state = "roundtrip" /\ chk.a \in 2..12) =>
       chk.result = [none |-> FALSE, val |-> chk.a]
  /\ (chk.state \in {"encoded", "roundtrip"} /\ chk.a \in 2..12) =>
       \A a2 \in (2..12) \ {chk.a} : encode_problem(a2) # chk.code

C11_Witness ==
  /\ chk.state = "roundtrip"
  /\ chk.a = 12
  /\ chk.code = Text(<< "M", "T", "I", "=" >>)
  /\ chk.result = [none |-> FALSE, val |-> 12]

\* The token does not decode as base64, or its bytes are not UTF-8 text, or
\* the text is not an integer numeral.
Malformed(code) ==
  LET raw == b64decode(Utf8Encode(code))
      txt == Utf8Decode(raw.bytes)
  IN  ~raw.ok \/ ~txt.ok \/ ~PyInt(txt.str).ok

Numerator(x) == x + 1

\* denominator = f"x^2 + {prob['c']}x + {prob['b']}"
Denominator(prob, x) == x * x + prob.c * x + prob.b

\* The factor left after cancelling: x + {prob['c']-1}
Remaining(prob, x) == x + (prob.c - 1)

\* The factored form the solution breakdown shows: (x+1)(x + {prob['c']-1})
Factored(prob, x) == (x + 1) * Remaining(prob, x)

\* Points at which the expressions are evaluated.
EvalPoints == (0 - 20)..20

InitGenerate ==
  /\ session_state = EmptyDict
  /\ query_params = EmptyDict
  /\ ui = NoUi
  /\ last = [op |-> "start", verdict |-> "none"]
  /\ pre = EmptyDict
  /\ hist = << >>
  /\ base = 0
  /\ chk \in {[state |-> "call", x |-> x] : x \in EvalPoints}

GenerateCall ==
  /\ chk.state = "call"
  /\ \E prob \in generate_problem :
       chk' = [state |-> "generated", x |-> chk.x, problem |-> prob]
  /\ UNCHANGED << session_state, query_params, ui, last, pre, hist, base >>

NextGenerate == GenerateCall

SpecGenerate == InitGenerate /\ [][NextGenerate]_vars

\* C13: every problem of generate_problem has a in 2..12, c = a^2 + 2 and
\* b = c - 1; at x = -1 the numerator and the denominator are both 0, the
\* denominator equals (x+1)(x+c-1) at every x, and x + c - 1 is a^2 at
\* x = -1.
C13_GeneratedProblem ==
  chk.state = "generated" =>
    LET prob == chk.problem
    IN  /\ prob.a \in 2..12
        /\ prob.c = prob.a * prob.a + 2
        /\ prob.b = prob.c - 1
        /\ Numerator(0 - 1) = 0
        /\ Denominator(prob, 0 - 1) = 0
        /\ Denominator(prob, chk.x) = Factored(prob, chk.x)
        /\ Remaining(prob, 0 - 1) = prob.a * prob.a

C13_Witness ==
  /\ chk.state = "generated"
  /\ chk.problem = [a |-> 12, b |-> 145, c |-> 146]
  /\ chk.x = 5
  /\ Denominator(chk.problem, chk.x) = 900

(***************************************************************************)
(* get_plot_data on its own.  The x values and the radicand denominators   *)
(* are floats; of y = sqrt(1/denominator) the model keeps whether it is a  *)
(* finite real number, infinite, or not a number.                          *)
(***************************************************************************)
\* n * x, exactly.
RECURSIVE BitsMulNat(_, _)
BitsMulNat(n, x) ==
  IF n = 0 THEN ZeroBits
  ELSE LET half  == BitsMulNat(n \div 2, x)
           twice == BitsAdd(half, half)
       IN  IF n % 2 = 1 THEN BitsAdd(twice, x) ELSE twice

Exact(bits) == [bits |-> bits, sticky |-> FALSE]

\* float(n) * x
FloatMulNat(n, x) ==
  [neg |-> x.neg /\ n # 0, bits |-> Round53(Exact(BitsMulNat(n, x.bits)))]

\* x + y
FloatAdd(x, y) ==
  IF x.neg = y.neg
  THEN [neg |-> x.neg, bits |-> Round53(Exact(BitsAdd(x.bits, y.bits)))]
  ELSE IF x.bits = y.bits
  THEN [neg |-> FALSE, bits |-> ZeroBits]
  ELSE IF BitsLess(x.bits, y.bits)
  THEN [neg |-> y.neg, bits |-> Round53(Exact(BitsSub(y.bits, x.bits)))]
  ELSE [neg |-> x.neg, bits |-> Round53(Exact(BitsSub(x.bits, y.bits)))]

FloatNeg(x) == [neg |-> ~x.neg /\ x.bits # ZeroBits, bits |-> x.bits]

FloatInt(n) == FloatOf(n < 0, Abs(n), 1)

\* x > 0
FloatPositive(x) == ~x.neg /\ x.bits # ZeroBits

\* np.linspace(-2, 0, 200): 200 samples
Samples == 200

\* step = delta / div, with delta = 0 - (-2) and div = 200 - 1
Step == FloatOf(FALSE, 2, Samples - 1)

\* arange(0, 200) * step + start, and the last sample set to stop
linspace ==
  Tuple([k \in 1..Samples |->
           IF k = Samples THEN FloatInt(0)
           ELSE FloatAdd(FloatMulNat(k - 1, Step), FloatInt(0 - 2))])

\* The literal 0.05.
Band == Round53(ToFixed(5, 100))

\* np.abs(x + 1) > 0.05
OutsideBand(x) == BitsLess(Band, FloatAdd(x, FloatInt(1)).bits)

\* x + c - 1
RadicandDenominator(x, c) == FloatAdd(FloatAdd(x, FloatInt(c)), FloatInt(0 - 1))

\* What np.sqrt(1 / d) is: 1/0 is inf, the root of a negative number is nan.
SqrtOfInverse(d) ==
  IF d.bits = ZeroBits THEN "inf" ELSE IF d.neg THEN "nan" ELSE "finite"

Row(x, c) ==
  [x |-> x, den |-> RadicandDenominator(x, c),
   y |-> SqrtOfInverse(RadicandDenominator(x, c))]

\* get_plot_data without the exclusion band.
get_plot_data_NoBand(c) ==
  LET x_vals == linspace
  IN  Tuple([k \in DOMAIN x_vals |-> Row(x_vals[k], c)])

\* The data frame of get_plot_data: one row per kept sample.
get_plot_data(c) ==
  LET x_vals == SelectSeq(linspace, OutsideBand)
  IN  Tuple([k \in DOMAIN x_vals |-> Row(x_vals[k], c)])

\* The values of c the problems of generate_problem have.
PlotCs == {prob.c : prob \in generate_problem}

InitPlot ==
  /\ session_state = EmptyDict
  /\ query_params = EmptyDict
  /\ ui = NoUi
  /\ last = [op |-> "start", verdict |-> "none"]
  /\ pre = EmptyDict
  /\ hist = << >>
  /\ base = 0
  /\ chk \in {[state |-> "call", c |-> c] : c \in PlotCs}

PlotCall ==
  /\ chk.state = "call"
  /\ chk' = [state |-> "frame", c |-> chk.c, df |-> get_plot_data(chk.c)]
  /\ UNCHANGED << session_state, query_params, ui, last, pre, hist, base >>

\* The chart reads a row of the frame.
ReadRow ==
  /\ chk.state = "frame"
  /\ \E k \in DOMAIN chk.df :
       chk' = [state |-> "row", c |-> chk.c, k |-> k, row |-> chk.df[k]]
  /\ UNCHANGED << session_state, query_params, ui, last, pre, hist, base >>

NextPlot == PlotCall \/ ReadRow

SpecPlot == InitPlot /\ [][NextPlot]_vars

\* The magnitude of x + 1 as a real number, for x in [-2, 0].
DistanceFromHole(x) ==
  LET one == FloatInt(1).bits
  IN  IF ~x.neg THEN BitsAdd(x.bits, one)
      ELSE IF BitsLess(x.bits, one) THEN BitsSub(one, x.bits)
      ELSE BitsSub(x.bits, one)

\* The properties C14 asks of one row, in exact arithmetic: x in [-2, 0],
\* |x + 1| >= 1/20 (the truncated numeral of 1/20 is below 1/20),
\* x + c - 1 > 0, and y finite.
GoodRow(row, c) ==
  /\ row.x.neg \/ row.x.bits = ZeroBits
  /\ ~BitsLess(FloatInt(2).bits, row.x.bits)
  /\ BitsLess(ToFixed(5, 100).bits, DistanceFromHole(row.x))
  /\ BitsLess(row.x.bits, FloatInt(c - 1).bits)
  /\ FloatPositive(row.den)
  /\ row.y = "finite"

\* C14: for c = a^2 + 2 with a in 2..12, every sample of get_plot_data(c)
\* has x in [-2, 0], at least 0.05 away from -1, and a strictly positive
\* x + c - 1, so that y is a finite real number.
C14_SamplesAreSafe ==
  /\ chk.state = "frame" => \A k \in DOMAIN chk.df : GoodRow(chk.df[k], chk.c)
  /\ chk.state = "row" => GoodRow(chk.row, chk.c)

\* The frame of c = 6 has its samples, and the first is x = -2 with
\* x + c - 1 = 3.
C14_Witness ==
  /\ chk.state = "row"
  /\ chk.c = 6
  /\ chk.k = 1
  /\ chk.row.x = FloatInt(0 - 2)
  /\ chk.row.den = FloatInt(3)
  /\ chk.row.y = "finite"

(***************************************************************************)
(* Properties of the session: hints, blank input, invariants               *)
(***************************************************************************)
\* C15: on one problem the first genuine incorrect submission reports 2
\* attempts left with the strategy hint (hint 1), the second reports 1
\* attempt left with the algebra hint (hint 2), the third shows no hint and
\* reveals the answer; a correct submission and a submission to a resolved
\* problem show no hint.
C15_HintsFollowAttempts ==
  last.op = "submit" =>
    /\ (Judged("incorrect") /\ Open(pre) /\ pre.attempts = 0) =>
         ui.remaining = 2 /\ ui.hint = 1
    /\ (Judged("incorrect") /\ Open(pre) /\ pre.attempts = 1) =>
         ui.remaining = 1 /\ ui.hint = 2
    /\ (Judged("incorrect") /\ Open(pre) /\ pre.attempts = 2) =>
         ui.hint = 0 /\ ui.msg = "answer" /\ session_state.show_solution
    /\ (Judged("incorrect") /\ Open(pre) /\ session_state.attempts < 3) =>
         ui.remaining = 3 - session_state.attempts
    /\ Judged("correct") => ui.hint = 0
    /\ ~Open(pre) => ui.hint = 0

C15_Witness ==
  /\ Judged("incorrect")
  /\ hist = << FALSE, FALSE >>
  /\ pre.attempts = 1
  /\ ui.remaining = 1
  /\ ui.hint = 2

\* The input is blank or sympify raises on it.
Unparseable(s) == Strip(s) = << >> \/ sympify(s).raised

\* C16: a blank or unparseable submission is judged incorrect: on a problem
\* neither failed nor solved it sets streak to 0 and adds 1 to attempts,
\* the third one fails the problem, and the script run never ends in an
\* error.
C16_BlankIsIncorrect ==
  (last.op = "submit" /\ Unparseable(session_state.user_input)) =>
    /\ last.verdict = "incorrect"
    /\ Open(pre) =>
         /\ session_state.streak = 0
         /\ session_state.attempts = pre.attempts + 1
         /\ pre.attempts = 2 => session_state.failed

\* C17: in every state after the first script run, 0 <= attempts <= 3,
\* failed holds exactly when attempts = 3, failed implies problem_solved,
\* and show_solution holds exactly when problem_solved holds.
C17_ProgressInvariant ==
  Started =>
    /\ session_state.attempts \in 0..3
    /\ session_state.failed <=> session_state.attempts = 3
    /\ session_state.failed => session_state.problem_solved
    /\ session_state.show_solution <=> session_state.problem_solved

C17_Witness ==
  /\ Started
  /\ last.op = "share"
  /\ session_state.failed
  /\ session_state.attempts = 3
  /\ session_state.problem_solved
  /\ session_state.show_solution

\* C18: after three judged submissions on one problem, in any order, the
\* problem is resolved (problem_solved and show_solution), and a resolved
\* problem stays resolved under every action but New Problem.
C18_BoundedResolution ==
  Started =>
    /\ Len(hist) >= 3 =>
         session_state.problem_solved /\ session_state.show_solution
    /\ (last.op \in {"submit", "share"} /\ pre.problem_solved) =>
         session_state.problem_solved /\ session_state.show_solution

C18_Witness ==
  /\ Started
  /\ hist = << FALSE, FALSE, TRUE >>
  /\ session_state.problem_solved
  /\ session_state.show_solution
  /\ ~session_state.failed

\* Three verdicts of incorrect open the record of the current problem.
FailedFirst ==
  Len(hist) >= 3 /\ \A i \in 1..3 : ~hist[i]

\* C19: on one problem, from the moment it is shown until New Problem,
\* total_correct grows by at most 1, and by 0 if the problem was failed
\* first; no action makes total_correct smaller.
C19_OneCreditPerProblem ==
  Started =>
    /\ session_state.total_correct \in {base, base + 1}
    /\ FailedFirst => session_state.total_correct = base
    /\ last.op # "init" => session_state.total_correct >= pre.total_correct

\* A problem credited once, then answered wrongly and correctly again.
C19_Witness ==
  /\ Started
  /\ base = 0
  /\ hist = << TRUE, FALSE, TRUE >>
  /\ Judged("correct")
  /\ session_state.total_correct = 1

=============================================================================
